---- MODULE Spec2Model ----
(***************************************************************************)
(* A model of braces/views/_other.py: CacheMixin (get_cache_timeout and    *)
(* render_to_response), CanonicalSlugDetailMixin.dispatch and              *)
(* AllVerbsMixin.dispatch.                                                 *)
(*                                                                         *)
(* Python strings that the code parses are sequences of one-character      *)
(* strings; Python's None is the string "<None>" where a name or a slug   *)
(* is expected and NoneObject where a response object is expected.         *)
(***************************************************************************)
EXTENDS Integers, Sequences, FiniteSets, TLC

VARIABLES
    cache_timeout,    \* CacheMixin.cache_timeout, the view's class attribute
    timeout_result,   \* outcome of the last get_cache_timeout() call
    nreq,             \* number of render_to_response calls so far
    pending,          \* the responses with a callable render that were
                      \* returned and are not rendered yet, by request
                      \* number; requests do not wait for one another
    \* The next ten describe the request that was acted on last, by its
    \* render_to_response call or by the rendering of its response.
    pc,               \* "pending": its response awaits rendering; else "idle"
    request,          \* self.request.META
    response,         \* the object the parent render_to_response produced
    handed,           \* the object response.render() hands to our callback
    callbacks,        \* response._post_render_callbacks registered by CacheMixin
    outcome,          \* how its render_to_response call ended
    returned,         \* what its render_to_response call returned
    cb_result,        \* what CacheMixin's post-render callback returned
    retval,           \* what response.render() returned
    log,              \* the cache.set calls made for it so far
    cache,            \* the "default" cache: key -> entry
    latest,           \* history: per path, the last request that qualified
    lastwriter,       \* history: per path, the qualifying request whose
                      \* write was due last
    ndue,             \* history: how many writes were due so far
    nsets,            \* history: how many cache.set calls were made in all
    slug_call,        \* the last CanonicalSlugDetailMixin.dispatch call
    verbs_call        \* the last AllVerbsMixin.dispatch call

vars == << cache_timeout, timeout_result, nreq, pending, pc, request, response,
           handed, callbacks, outcome, returned, cb_result, retval, log, cache,
           latest, lastwriter, ndue, nsets, slug_call, verbs_call >>

cacheVars == << nreq, pending, pc, request, response, handed, callbacks,
                outcome, returned, cb_result, retval, log, cache, latest,
                lastwriter, ndue, nsets >>

(***************************************************************************)
(* Bounds of the model.                                                    *)
(***************************************************************************)
MaxLen == 3
MaxRequests == 2

(***************************************************************************)
(* Program constants.                                                      *)
(***************************************************************************)
DefaultCacheTimeout == 600
SecondsPerMinute == 60
SecondsPerHour == 3600
SecondsPerDay == 86400
StatusOK == 200

(***************************************************************************)
(* cache_timeout values: a Python int or a Python str.                     *)
(***************************************************************************)
IntTimeout(n) == [isint |-> TRUE, n |-> n, s |-> <<>>]
StrTimeout(s) == [isint |-> FALSE, n |-> 0, s |-> s]

Digits == {"0", "1", "2", "5"}
Units == {"d", "h", "m"}
Alphabet == Digits \cup Units \cup {"x"}

Strings(len) == UNION {[1..k -> Alphabet] : k \in 0..len}

IntValues == {-1, 0, 1, 5, 300, DefaultCacheTimeout}

AllTimeouts == {IntTimeout(n) : n \in IntValues}
                 \cup {StrTimeout(s) : s \in Strings(MaxLen)}

\* int() of one decimal digit
DigitValue(c) ==
    CASE c = "0" -> 0 [] c = "1" -> 1 [] c = "2" -> 2 [] c = "5" -> 5

\* int(count) for a string of decimal digits
RECURSIVE ParseInt(_)
ParseInt(ds) ==
    IF ds = <<>> THEN 0
    ELSE 10 * ParseInt(SubSeq(ds, 1, Len(ds) - 1)) + DigitValue(ds[Len(ds)])

\* the length of the longest prefix of s that \d+ can take
RECURSIVE DigitPrefixLen(_)
DigitPrefixLen(s) ==
    IF s = <<>> \/ s[1] \notin Digits THEN 0
    ELSE 1 + DigitPrefixLen(Tail(s))

NoMatch == [matched |-> FALSE, count |-> <<>>, time |-> ""]

\* re.match(r"(?P<count>\d+)(?P<time>[dhm])", s): anchored at the start of s
\* only; whatever follows the unit letter is not looked at.
ReMatch(s) ==
    LET k == DigitPrefixLen(s)
    IN  IF k >= 1 /\ Len(s) > k /\ s[k + 1] \in Units
        THEN [matched |-> TRUE, count |-> SubSeq(s, 1, k), time |-> s[k + 1]]
        ELSE NoMatch

Return(v) == [kind |-> "return", value |-> v, exc |-> ""]
Raise(e) == [kind |-> "raise", value |-> 0, exc |-> e]
NotCalled == [kind |-> "none", value |-> 0, exc |-> ""]

\* a variant that takes an hour for a minute
UnitSecondsHourAsMinute(time) ==
    CASE time = "m" -> SecondsPerMinute
      [] time = "h" -> SecondsPerMinute
      [] time = "d" -> SecondsPerDay

\* the if/elif chain on the unit letter
UnitSeconds(time) ==
    CASE time = "m" -> SecondsPerMinute
      [] time = "h" -> SecondsPerHour
      [] time = "d" -> SecondsPerDay

\* CacheMixin.get_cache_timeout; match.group on None raises AttributeError
get_cache_timeout(ct) ==
    IF ct.isint THEN Return(ct.n)
    ELSE LET match == ReMatch(ct.s)
         IN  IF ~match.matched THEN Raise("AttributeError")
             ELSE Return(UnitSeconds(match.time) * ParseInt(match.count))

(***************************************************************************)
(* CacheMixin.render_to_response and the rendering of its response.        *)
(***************************************************************************)
Paths == {"/foo/bar", "/foo/bar/"}
QueryStrings == {"", "page=2"}
Statuses == {StatusOK, 404}

Metas == [PATH_INFO : Paths, QUERY_STRING : QueryStrings]
NoMeta == [PATH_INFO |-> "", QUERY_STRING |-> ""]

\* A response object. id is the object's identity: n > 0 for the response
\* the parent render_to_response made for request n, -n for another response
\* object that an earlier post-render callback returned in its place.
ResponseObject(n, streaming, status, has_render) ==
    [id |-> n, streaming |-> streaming, status_code |-> status,
     has_render |-> has_render, is_rendered |-> ~has_render]

NoneObject ==
    [id |-> 0, streaming |-> FALSE, status_code |-> 0,
     has_render |-> FALSE, is_rendered |-> FALSE]

\* the view attributes the requests are run under
ViewTimeouts ==
    { IntTimeout(DefaultCacheTimeout), StrTimeout(<<"2", "h">>),
      StrTimeout(<<"5", "x">>), StrTimeout(<<"5", "m", "x">>) }

\* a variant that tests the status code only
ShouldSkipStatusOnly(resp) == resp.status_code /= StatusOK

\* the test that skips caching
ShouldSkip(resp) == resp.streaming \/ resp.status_code /= StatusOK

\* a variant that strips the trailing slash of the path
CacheKeyNormalized(meta) ==
    IF meta.PATH_INFO = "/foo/bar/" THEN "/foo/bar" ELSE meta.PATH_INFO

\* a variant that keys on the path and the query string
CacheKeyWithQuery(meta) ==
    IF meta.QUERY_STRING = "" THEN meta.PATH_INFO
    ELSE meta.PATH_INFO \o "?" \o meta.QUERY_STRING

\* cache_key = self.request.META["PATH_INFO"]
CacheKey(meta) == meta.PATH_INFO

\* hasattr(response, 'render') and callable(response.render)
IsDeferred(resp) == resp.has_render

\* the value the lambda passes to update_cache: the closure's response; its
\* argument r is not used
CallbackValue(captured, r) == captured

\* a variant in which update_cache returns the value it stored
UpdateCacheReturnsValue(value) == value

\* what update_cache returns
UpdateCacheResult(value) == NoneObject

\* cache.set(key, value, timeout) on the "default" cache
CacheSet(c, key, value, timeout) ==
    [k \in DOMAIN c \cup {key} |->
        IF k = key THEN [value |-> value, timeout |-> timeout] ELSE c[k]]

SetCall(key, value, timeout, phase) ==
    [key |-> key, value |-> value, timeout |-> timeout, phase |-> phase]

\* a qualifying response: status 200 and not streaming
Qualifies(resp) == resp.status_code = 200 /\ ~resp.streaming

\* the view's cache_timeout resolves to a number of seconds
Resolves(ct) == get_cache_timeout(ct).kind = "return"

\* history: path p now belongs to request id with this timeout
Record(h, p, id, timeout) ==
    [q \in DOMAIN h \cup {p} |->
        IF q = p THEN [id |-> id, timeout |-> timeout] ELSE h[q]]

\* what is kept of a returned response until the framework renders it
Pending(meta, resp, cbs, how, calls) ==
    [meta |-> meta, response |-> resp, callbacks |-> cbs, outcome |-> how,
     log |-> calls]

AddPending(id, rec) ==
    [i \in DOMAIN pending \cup {id} |-> IF i = id THEN rec ELSE pending[i]]

\* CacheMixin.render_to_response for one request. resp is what the parent
\* render_to_response returned. The method keeps no state between calls:
\* it runs whether or not earlier responses have been rendered.
RenderToResponse(meta, resp) ==
    /\ nreq < MaxRequests
    /\ nreq' = nreq + 1
    /\ request' = meta
    /\ response' = resp
    /\ handed' = NoneObject
    /\ cb_result' = NoneObject
    /\ retval' = NoneObject
    /\ latest' = IF Qualifies(resp) /\ Resolves(cache_timeout)
                  THEN Record(latest, meta.PATH_INFO, resp.id,
                              get_cache_timeout(cache_timeout).value)
                  ELSE latest
    /\ lastwriter' = IF Qualifies(resp) /\ Resolves(cache_timeout)
                        /\ ~resp.has_render
                      THEN Record(lastwriter, meta.PATH_INFO, resp.id,
                                  get_cache_timeout(cache_timeout).value)
                      ELSE lastwriter
    /\ ndue' = IF Qualifies(resp) /\ Resolves(cache_timeout)
                  /\ ~resp.has_render
                THEN ndue + 1 ELSE ndue
    /\ IF ShouldSkip(resp)
       THEN /\ outcome' = "skipped"
            /\ returned' = resp
            /\ callbacks' = <<>>
            /\ log' = <<>>
            /\ UNCHANGED << cache, nsets >>
       ELSE LET timeout == get_cache_timeout(cache_timeout)
                cache_key == CacheKey(meta)
            IN  IF timeout.kind = "raise"
                THEN /\ outcome' = "raised"
                     /\ returned' = NoneObject
                     /\ callbacks' = <<>>
                     /\ log' = <<>>
                     /\ UNCHANGED << cache, nsets >>
                ELSE /\ returned' = resp
                     /\ IF IsDeferred(resp)
                        THEN /\ outcome' = "deferred"
                             /\ callbacks' = << [key |-> cache_key,
                                                 timeout |-> timeout.value] >>
                             /\ log' = <<>>
                             /\ UNCHANGED << cache, nsets >>
                        ELSE /\ outcome' = "written"
                             /\ callbacks' = <<>>
                             /\ cache' = CacheSet(cache, cache_key, resp,
                                                  timeout.value)
                             /\ log' = << SetCall(cache_key, resp,
                                                  timeout.value, "sync") >>
                             /\ nsets' = nsets + 1
    \* a response that was returned and has a render method is rendered
    \* by the framework later
    /\ pc' = IF resp.has_render /\ outcome' /= "raised" THEN "pending"
             ELSE "idle"
    /\ pending' = IF resp.has_render /\ outcome' /= "raised"
                  THEN AddPending(resp.id,
                                  Pending(meta, resp, callbacks', outcome',
                                          log'))
                  ELSE pending
    /\ UNCHANGED << cache_timeout, timeout_result, slug_call, verbs_call >>

HandleRequest ==
    \E meta \in Metas, streaming \in BOOLEAN, status \in Statuses,
       has_render \in BOOLEAN :
        RenderToResponse(meta,
                         ResponseObject(nreq + 1, streaming, status, has_render))

\* The framework renders a returned response: response.render() sets the
\* content in place and calls the post-render callbacks in the order they
\* were added, handing each the current retval; a callback that returns
\* something other than None replaces retval. Callbacks added before
\* CacheMixin's may have replaced retval already (replaced). Responses are
\* rendered in any order, each once.
Render(id, replaced) ==
    /\ id \in DOMAIN pending
    /\ LET rec == pending[id]
           rendered == [rec.response EXCEPT !.is_rendered = TRUE]
           r == IF replaced THEN [rendered EXCEPT !.id = -rendered.id]
                ELSE rendered
           due == Qualifies(rec.response) /\ Resolves(cache_timeout)
       IN  /\ request' = rec.meta
           /\ response' = rendered
           /\ outcome' = rec.outcome
           /\ returned' = rec.response
           /\ handed' = r
           /\ lastwriter' = IF due
                             THEN Record(lastwriter, rec.meta.PATH_INFO, id,
                                         get_cache_timeout(cache_timeout).value)
                             ELSE lastwriter
           /\ ndue' = IF due THEN ndue + 1 ELSE ndue
           /\ IF rec.callbacks = <<>>
              THEN /\ cb_result' = NoneObject
                   /\ retval' = r
                   /\ log' = rec.log
                   /\ UNCHANGED << cache, nsets >>
              ELSE LET cb == rec.callbacks[1]
                       value == CallbackValue(rendered, r)
                       res == UpdateCacheResult(value)
                   IN  /\ cache' = CacheSet(cache, cb.key, value, cb.timeout)
                       /\ log' = Append(rec.log,
                                        SetCall(cb.key, value, cb.timeout,
                                                "callback"))
                       /\ nsets' = nsets + 1
                       /\ cb_result' = res
                       /\ retval' = IF res /= NoneObject THEN res ELSE r
    /\ callbacks' = <<>>
    /\ pc' = "idle"
    /\ pending' = [i \in DOMAIN pending \ {id} |-> pending[i]]
    /\ UNCHANGED << nreq, latest >>
    /\ UNCHANGED << cache_timeout, timeout_result, slug_call, verbs_call >>

RenderResponse ==
    \E id \in DOMAIN pending, replaced \in BOOLEAN : Render(id, replaced)

(***************************************************************************)
(* CanonicalSlugDetailMixin.dispatch.                                      *)
(***************************************************************************)
\* kwargs.get(self.slug_url_kwarg, None) when the url has no slug argument
NoneSlug == "<None>"
Slugs == {"widget", "gadget"}
UrlSlugs == Slugs \cup {NoneSlug}
Pks == {1, 2}
Namespaces == { <<>>, <<"shop">>, <<"shop", "admin">> }
UrlNames == {"detail", "item"}

\* the object get_object() returns: its pk, its slug, whether its class
\* defines get_canonical_slug, and what that method returns
Objects == [pk : Pks, slug : Slugs, has_get_canonical_slug : BOOLEAN,
            canonical : Slugs]

\* ":".join(url_parts)
RECURSIVE Join(_, _)
Join(sep, parts) ==
    IF parts = <<>> THEN ""
    ELSE IF Len(parts) = 1 THEN parts[1]
    ELSE parts[1] \o sep \o Join(sep, Tail(parts))

\* url_parts = match.namespaces; url_parts.append(match.url_name)
CurrentUrlPattern(namespaces, url_name) ==
    Join(":", Append(namespaces, url_name))

\* CanonicalSlugDetailMixin.get_canonical_slug: self.get_object().slug
ViewGetCanonicalSlug(obj) == obj.slug

\* a variant that always asks the view
CanonicalSlugViewOnly(obj) ==
    [slug |-> ViewGetCanonicalSlug(obj), by |-> "view"]

\* "Figure out what the slug is supposed to be": the slug and which
\* get_canonical_slug was called for it
CanonicalSlug(obj) ==
    IF obj.has_get_canonical_slug
    THEN [slug |-> obj.canonical, by |-> "object"]
    ELSE [slug |-> ViewGetCanonicalSlug(obj), by |-> "view"]

NoSlugCall ==
    [kind |-> "none", slug |-> NoneSlug,
     obj |-> [pk |-> 0, slug |-> "", has_get_canonical_slug |-> FALSE,
              canonical |-> ""],
     namespaces |-> <<>>, url_name |-> "", by |-> "",
     result |-> [kind |-> "none", to |-> "", pk |-> 0, slug |-> "",
                 permanent |-> FALSE]]

\* CanonicalSlugDetailMixin.dispatch
SlugDispatch(slug, obj, namespaces, url_name) ==
    LET current_urlpattern == CurrentUrlPattern(namespaces, url_name)
        canonical == CanonicalSlug(obj)
    IN  /\ slug_call' =
             [kind |-> "call", slug |-> slug, obj |-> obj,
              namespaces |-> namespaces, url_name |-> url_name,
              by |-> canonical.by,
              result |->
                 IF canonical.slug /= slug
                 THEN [kind |-> "redirect", to |-> current_urlpattern,
                       pk |-> obj.pk, slug |-> canonical.slug,
                       permanent |-> TRUE]
                 ELSE [kind |-> "super", to |-> "", pk |-> 0, slug |-> "",
                       permanent |-> FALSE]]
        /\ UNCHANGED << cache_timeout, timeout_result, verbs_call >>
        /\ UNCHANGED cacheVars

DispatchSlug ==
    \E slug \in UrlSlugs, obj \in Objects, namespaces \in Namespaces,
       url_name \in UrlNames :
        SlugDispatch(slug, obj, namespaces, url_name)

(***************************************************************************)
(* AllVerbsMixin.dispatch.                                                 *)
(***************************************************************************)
DefaultAllHandler == "all"
\* all_handler = None
NoneName == "<None>"
AllHandlers == {NoneName, "", DefaultAllHandler, "handle_any", "get"}
HandlerNames == {DefaultAllHandler, "handle_any", "get", "post"}
Methods == {"GET", "POST", "PUT", "DELETE"}

\* not self.all_handler
IsFalsy(name) == name = NoneName \/ name = ""

\* request.method.lower()
Lower(method) ==
    CASE method = "GET" -> "get" [] method = "POST" -> "post"
      [] method = "PUT" -> "put" [] method = "DELETE" -> "delete"

\* a variant that picks the handler by the request method, as View.dispatch
HandlerByMethod(all_handler, attrs, method) ==
    IF Lower(method) \in attrs THEN Lower(method)
    ELSE "http_method_not_allowed"

\* getattr(self, self.all_handler, self.http_method_not_allowed); attrs are
\* the names the view defines
ChosenHandler(all_handler, attrs, method) ==
    IF all_handler \in attrs THEN all_handler ELSE "http_method_not_allowed"

NoVerbsCall ==
    [kind |-> "none", all_handler |-> "", attrs |-> {}, method |-> "",
     result |-> "", called |-> ""]

\* AllVerbsMixin.dispatch
VerbsDispatch(all_handler, attrs, method) ==
    /\ verbs_call' =
         IF IsFalsy(all_handler)
         THEN [kind |-> "call", all_handler |-> all_handler, attrs |-> attrs,
               method |-> method, result |-> "ImproperlyConfigured",
               called |-> ""]
         ELSE [kind |-> "call", all_handler |-> all_handler, attrs |-> attrs,
               method |-> method, result |-> "return",
               called |-> ChosenHandler(all_handler, attrs, method)]
    /\ UNCHANGED << cache_timeout, timeout_result, slug_call >>
    /\ UNCHANGED cacheVars

DispatchVerbs ==
    \E all_handler \in AllHandlers, attrs \in SUBSET HandlerNames,
       method \in Methods :
        VerbsDispatch(all_handler, attrs, method)

InitRest ==
    /\ timeout_result = NotCalled
    /\ pc = "idle"
    /\ nreq = 0
    /\ pending = <<>>
    /\ request = NoMeta
    /\ response = NoneObject
    /\ handed = NoneObject
    /\ callbacks = <<>>
    /\ outcome = "none"
    /\ returned = NoneObject
    /\ cb_result = NoneObject
    /\ retval = NoneObject
    /\ log = <<>>
    /\ cache = <<>>
    /\ latest = <<>>
    /\ lastwriter = <<>>
    /\ ndue = 0
    /\ nsets = 0
    /\ slug_call = NoSlugCall
    /\ verbs_call = NoVerbsCall

Init == cache_timeout \in ViewTimeouts /\ InitRest

Next == HandleRequest \/ RenderResponse

Spec == Init /\ [][Next]_vars

(***************************************************************************)
(* get_cache_timeout on its own, over every cache_timeout of the bounds.   *)
(***************************************************************************)
InitTimeout == cache_timeout \in AllTimeouts /\ InitRest

GetCacheTimeout ==
    /\ timeout_result = NotCalled
    /\ timeout_result' = get_cache_timeout(cache_timeout)
    /\ UNCHANGED << cache_timeout, slug_call, verbs_call >>
    /\ UNCHANGED cacheVars

NextTimeout == GetCacheTimeout

SpecTimeout == InitTimeout /\ [][NextTimeout]_vars

(***************************************************************************)
(* The two dispatch methods, each on its own.                              *)
(***************************************************************************)
InitDispatch == cache_timeout = IntTimeout(DefaultCacheTimeout) /\ InitRest

SpecSlug == InitDispatch /\ [][DispatchSlug]_vars

SpecVerbs == InitDispatch /\ [][DispatchVerbs]_vars

(***************************************************************************)
(* Reference definitions the claims are stated with.                       *)
(***************************************************************************)
\* s matches ^\d+[dhm]$ in its entirety
FullMatch(s) ==
    /\ Len(s) >= 2
    /\ s[Len(s)] \in {"d", "h", "m"}
    /\ \A i \in 1..(Len(s) - 1) : s[i] \in {"0", "1", "2", "5"}

\* the decimal value of a string of digits, read from the left
RECURSIVE RefDecimal(_, _)
RefDecimal(ds, acc) ==
    IF ds = <<>> THEN acc
    ELSE RefDecimal(Tail(ds),
                    acc * 10 + (CASE ds[1] = "0" -> 0 [] ds[1] = "1" -> 1
                                  [] ds[1] = "2" -> 2 [] ds[1] = "5" -> 5))

\* the reference timeout of a string count + unit
RefSeconds(s) ==
    RefDecimal(SubSeq(s, 1, Len(s) - 1), 0)
      * (CASE s[Len(s)] = "m" -> 60 [] s[Len(s)] = "h" -> 3600
           [] s[Len(s)] = "d" -> 86400)

\* the resolved timeout of the view
ResolvedTimeout == get_cache_timeout(cache_timeout).value

(***************************************************************************)
(* Claims.                                                                 *)
(***************************************************************************)

\* C1: for a response that is not streaming, has status 200 and has no
\* callable render, under a cache_timeout that resolves, render_to_response
\* makes exactly one cache.set before it returns: key PATH_INFO verbatim,
\* value the response, timeout the result of get_cache_timeout().
C1_ImmediateWrite ==
    (nreq > 0 /\ Qualifies(response) /\ ~response.has_render
       /\ Resolves(cache_timeout))
    => /\ pc = "idle"
       /\ outcome = "written"
       /\ returned = response
       /\ log = << SetCall(request.PATH_INFO, response, ResolvedTimeout,
                           "sync") >>
       /\ request.PATH_INFO \in DOMAIN cache
       /\ cache[request.PATH_INFO] =
            [value |-> response, timeout |-> ResolvedTimeout]

C1_Witness ==
    /\ nreq > 0 /\ Qualifies(response) /\ ~response.has_render
    /\ request.PATH_INFO = "/foo/bar/" /\ request.QUERY_STRING = "page=2"
    /\ Len(log) = 1 /\ log[1].key = "/foo/bar/" /\ log[1].timeout = 7200
    /\ returned = response

\* C2: for a response that is streaming (whatever its status) or whose
\* status is not 200, no cache.set is ever made for the request and no
\* post-render callback is registered, before or after the response renders.
C2_NoWriteWhenSkipped ==
    (nreq > 0 /\ (response.streaming \/ response.status_code /= 200))
    => /\ outcome = "skipped"
       /\ log = <<>>
       /\ callbacks = <<>>

C2_Witness ==
    /\ nreq > 0 /\ response.streaming /\ response.status_code = 200
    /\ response.has_render /\ response.is_rendered /\ pc = "idle"
    /\ Resolves(cache_timeout)
    /\ log = <<>>

\* C3 (as claimed): for a deferred-render response that qualifies, no
\* cache.set is made before the post-render callback fires, and once it has
\* fired exactly one cache.set was made, whose value is the response object
\* the rendering handed to the callback.
C3_DeferredWritesHandedObject ==
    (nreq > 0 /\ Qualifies(response) /\ response.has_render
       /\ Resolves(cache_timeout))
    => /\ pc = "pending" => log = <<>>
       /\ pc = "idle" => /\ Len(log) = 1
                         /\ log[1].phase = "callback"
                         /\ log[1].value = handed

\* C4: get_cache_timeout agrees with the reference timeout: an integer is
\* returned unchanged, count + unit gives count*60, count*3600 or
\* count*86400, and the default resolves to 600.
C4_TimeoutAgrees ==
    timeout_result.kind /= "none"
    => /\ cache_timeout.isint => timeout_result = Return(cache_timeout.n)
       /\ (~cache_timeout.isint /\ FullMatch(cache_timeout.s))
            => timeout_result = Return(RefSeconds(cache_timeout.s))
       /\ cache_timeout = IntTimeout(DefaultCacheTimeout)
            => timeout_result = Return(600)
       /\ cache_timeout = StrTimeout(<<"5", "m">>)
            => timeout_result = Return(300)
       /\ cache_timeout = StrTimeout(<<"2", "h">>)
            => timeout_result = Return(7200)
       /\ cache_timeout = StrTimeout(<<"1", "d">>)
            => timeout_result = Return(86400)

C4_Witness ==
    /\ cache_timeout = StrTimeout(<<"1", "2", "h">>)
    /\ timeout_result = Return(43200)

\* C5 (as claimed): for every string that does not match ^\d+[dhm]$ in its
\* entirety, get_cache_timeout fails and returns no number of seconds.
C5_MalformedFails ==
    (timeout_result.kind /= "none" /\ ~cache_timeout.isint
       /\ ~FullMatch(cache_timeout.s))
    => timeout_result.kind = "raise"

\* C6: render_to_response returns the very object the parent produced, its
\* status code and streaming flag unchanged, on every branch; the
\* post-render callback returns None, so render() returns what the
\* callback was handed.
C6_PassThrough ==
    /\ outcome \in {"skipped", "written", "deferred"}
         => /\ returned.id = response.id
            /\ returned.status_code = response.status_code
            /\ returned.streaming = response.streaming
    /\ cb_result = NoneObject
    /\ retval = handed

C6_Witness ==
    /\ outcome = "deferred" /\ pc = "idle" /\ Len(log) = 1
    /\ handed.id < 0 /\ retval = handed /\ returned.id = response.id

\* C7: dispatch redirects permanently to the current url pattern, with the
\* object's pk and the canonical slug, exactly when the url's slug differs
\* from the canonical slug, and otherwise calls the parent dispatch; the
\* canonical slug is the object's get_canonical_slug() when the object has
\* one, and then the view's get_canonical_slug is not called.
C7_CanonicalRedirect ==
    slug_call.kind = "call"
    => LET o == slug_call.obj
           r == slug_call.result
           canonical == IF o.has_get_canonical_slug THEN o.canonical
                        ELSE o.slug
           pattern == CASE slug_call.namespaces = <<>> -> slug_call.url_name
                        [] slug_call.namespaces = <<"shop">>
                             -> "shop:" \o slug_call.url_name
                        [] slug_call.namespaces = <<"shop", "admin">>
                             -> "shop:admin:" \o slug_call.url_name
       IN  /\ r.kind = "redirect" <=> slug_call.slug /= canonical
           /\ r.kind = "redirect"
                => /\ r.to = pattern /\ r.pk = o.pk
                   /\ r.slug = canonical /\ r.permanent
           /\ r.kind /= "redirect" => r.kind = "super"
           /\ o.has_get_canonical_slug => slug_call.by = "object"

C7_Witness ==
    /\ slug_call.kind = "call"
    /\ slug_call.obj.has_get_canonical_slug
    /\ slug_call.obj.slug = "widget" /\ slug_call.obj.canonical = "gadget"
    /\ slug_call.slug = "widget"
    /\ slug_call.result.kind = "redirect"
    /\ slug_call.result.to = "shop:admin:detail"
    /\ slug_call.result.slug = "gadget"

\* C8: dispatch calls the method all_handler names whatever the HTTP verb;
\* with all_handler unset or empty it raises ImproperlyConfigured and calls
\* nothing; with no attribute of that name it calls
\* http_method_not_allowed.
C8_AllVerbs ==
    verbs_call.kind = "call"
    => LET unset == verbs_call.all_handler \in {NoneName, ""}
       IN  /\ unset => /\ verbs_call.result = "ImproperlyConfigured"
                       /\ verbs_call.called = ""
           /\ (~unset /\ verbs_call.all_handler \in verbs_call.attrs)
                => /\ verbs_call.result = "return"
                   /\ verbs_call.called = verbs_call.all_handler
           /\ (~unset /\ verbs_call.all_handler \notin verbs_call.attrs)
                => /\ verbs_call.result = "return"
                   /\ verbs_call.called = "http_method_not_allowed"

C8_Witness ==
    /\ verbs_call.kind = "call"
    /\ verbs_call.all_handler = "all" /\ verbs_call.method = "POST"
    /\ {"all", "post"} \subseteq verbs_call.attrs
    /\ verbs_call.called = "all"

\* C9 (as claimed): once every returned response is rendered, the cache
\* holds entries under request paths only, and the entry under a path is
\* the response and the timeout of the most recent qualifying request to
\* that path.
C9_LatestRequestWins ==
    DOMAIN pending = {}
    => /\ DOMAIN cache = DOMAIN latest
       /\ \A p \in DOMAIN latest :
              /\ cache[p].value.id = latest[p].id
              /\ cache[p].timeout = latest[p].timeout

\* C9 (amended): every qualifying request makes exactly one cache.set, at
\* once for a response without render and when the response is rendered
\* otherwise, and no other request makes any; the cache holds entries under
\* request paths only, and the entry under a path is the response and the
\* timeout of the qualifying request to that path whose write came last.
C9_LastWriteWins ==
    /\ nsets = ndue
    /\ (nreq > 0 /\ outcome /= "raised")
         => Len(log) = (IF Qualifies(response)
                           /\ (~response.has_render \/ pc = "idle")
                        THEN 1 ELSE 0)
    /\ DOMAIN cache = DOMAIN lastwriter
    /\ \A p \in DOMAIN lastwriter :
           /\ cache[p].value.id = lastwriter[p].id
           /\ cache[p].timeout = lastwriter[p].timeout

\* request 1 (deferred) wrote after request 2 (immediate) to the same path
C9_Witness ==
    /\ DOMAIN pending = {} /\ nreq = 2 /\ nsets = 2
    /\ DOMAIN cache = {"/foo/bar"}
    /\ cache["/foo/bar"].value.id = 1
    /\ latest["/foo/bar"].id = 2
    /\ response.id = 1 /\ Len(log) = 1

\* C10 (as claimed): with a cache_timeout that does not match ^\d+[dhm]$,
\* a response that is streaming or not 200 is returned normally, and a
\* qualifying response makes the call fail with no cache.set made and no
\* callback registered, the cache left as it was.
C10_MalformedFailsBeforeCache ==
    (nreq > 0 /\ ~cache_timeout.isint /\ ~FullMatch(cache_timeout.s))
    => /\ ~Qualifies(response)
            => outcome = "skipped" /\ returned.id = response.id
       /\ Qualifies(response)
            => /\ outcome = "raised"
               /\ log = <<>>
               /\ callbacks = <<>>
               /\ DOMAIN cache = {}

====
